---------------------------- MODULE Spec2Model ----------------------------
(***************************************************************************)
(* A model of run_bench (src/src/bench.rs): the core-pair sweep, the       *)
(* memory binding before every measurement, the storing of the samples in  *)
(* the results tensor, and the min / max / mean summary and CSV output.    *)
(*                                                                         *)
(* An f64 is modelled exactly: NaN, or a non-negative rational <<num,den>>.*)
(* A standard deviation or standard error r is carried as r*r (a variance),*)
(* so that square roots stay rational; rounding error of f64 arithmetic is *)
(* not modelled.                                                           *)
(***************************************************************************)
EXTENDS Integers, Sequences, FiniteSets, TLC

\* ------------------------------------------------------------- bounds
MaxCores == 3
MaxSamples == 2
MaxDeviant == 1

\* -------------------------------------------------- program constants
\* assert!(n_cores >= 2)
MinCores == 2
\* bench.run(.., 1 + num_samples), &durations[1..]
Warmup == 1
\* values.std(1.0), results.std_axis(Axis(2), 1.0)
Ddof == 1
\* values.std(1.0).min(99.0)
StdCap == 99

\* ------------------------------------------------------------ f64
NaN == <<>>

F(x) == <<x, 1>>

IsNaN(a) == a = NaN

\* a < b on non-NaN values
Less(a, b) == a[1] * b[2] < b[1] * a[2]

\* f64::min: a NaN operand is ignored
FMin(a, b) ==
    IF IsNaN(a) THEN b
    ELSE IF IsNaN(b) THEN a
    ELSE IF Less(b, a) THEN b ELSE a

RECURSIVE Gcd(_, _)
Gcd(a, b) == IF b = 0 THEN a ELSE Gcd(b, a % b)

Abs(x) == IF x < 0 THEN 0 - x ELSE x

\* the canonical form of a rational: lowest terms, positive denominator
Norm(a) ==
    LET g == Gcd(Abs(a[1]), a[2])
    IN  <<a[1] \div g, a[2] \div g>>

FAdd(a, b) ==
    IF IsNaN(a) \/ IsNaN(b) THEN NaN
    ELSE Norm(<<a[1] * b[2] + b[1] * a[2], a[2] * b[2]>>)

FSub(a, b) ==
    IF IsNaN(a) \/ IsNaN(b) THEN NaN
    ELSE Norm(<<a[1] * b[2] - b[1] * a[2], a[2] * b[2]>>)

FMul(a, b) ==
    IF IsNaN(a) \/ IsNaN(b) THEN NaN
    ELSE Norm(<<a[1] * b[1], a[2] * b[2]>>)

\* a / k for an integer k >= 0; only 0 / 0 (= NaN) arises with k = 0
FDiv(a, k) ==
    IF IsNaN(a) \/ k = 0 THEN NaN
    ELSE Norm(<<a[1], a[2] * k>>)

\* ------------------------------------------------- ndarray reductions
\* A lane is a function 0..len-1 -> f64 (a 1-d view or a Vec).
LaneLen(v) == Cardinality(DOMAIN v)

RECURSIVE SumTo(_, _)
SumTo(v, k) == IF k = 0 THEN F(0) ELSE FAdd(SumTo(v, k - 1), v[k - 1])

\* ArrayBase::mean() on a non-empty lane (it is None on an empty one: the
\* callers' unwrap() is a guard of the actions)
Mean(v) == FDiv(SumTo(v, LaneLen(v)), LaneLen(v))

RECURSIVE SumSqTo(_, _, _)
SumSqTo(v, m, k) ==
    IF k = 0 THEN F(0)
    ELSE FAdd(SumSqTo(v, m, k - 1),
              FMul(FSub(v[k - 1], m), FSub(v[k - 1], m)))

\* ArrayBase::var(ddof): sum of squared deviations / (n - ddof); 0 / 0 is NaN
Var(v, ddof) ==
    LET n == LaneLen(v)
        m == FDiv(SumTo(v, n), n)
    IN  FDiv(SumSqTo(v, m, n), n - ddof)

\* ------------------------------------------------------- formatting
\* floor(sqrt(x)) for an integer x >= 0, by bisection on [lo, hi)
RECURSIVE ISqrtIn(_, _, _)
ISqrtIn(x, lo, hi) ==
    IF hi - lo <= 1 THEN lo
    ELSE LET mid == (lo + hi) \div 2
         IN  IF mid * mid <= x THEN ISqrtIn(x, mid, hi) ELSE ISqrtIn(x, lo, mid)

\* (46340 is the largest root of a 32-bit integer)
ISqrt(x) == ISqrtIn(x, 0, IF x < 46340 THEN x + 1 ELSE 46341)

\* format!("{:.d}", a) with scale = 10^d: a rounded to a multiple of 1/scale,
\* ties to even; "NaN" for NaN
Fmt(a, scale) ==
    IF IsNaN(a) THEN NaN
    ELSE LET num == a[1] * scale
             q == num \div a[2]
             r == num % a[2]
         IN  IF 2 * r > a[2] \/ (2 * r = a[2] /\ q % 2 = 1)
             THEN <<q + 1, scale>>
             ELSE <<q, scale>>

\* format!("{:.d}", r) for the r >= 0 carried as its square sq: sqrt(sq)
\* rounded to a multiple of 1/scale
FmtRoot(sq, scale) ==
    IF IsNaN(sq) THEN NaN
    ELSE <<(ISqrt((4 * scale * scale * sq[1]) \div sq[2]) + 1) \div 2, scale>>

\* ------------------------------------------------------ the machine
\* The core lists a run may be given: n identifiers, in ascending or in
\* descending order of a machine whose PUs are numbered from 0.
CoreLists(n) ==
    { [k \in 0..(n - 1) |-> 2 * k],
      [k \in 0..(n - 1) |-> 3 * (n - 1 - k) + 1] }

\* pu.nodeset(): the NUMA node owning a PU (four PUs per node)
NodeSetOf(id) == {id \div 4}

\* A Vec<f64> as a lane
Lane(seq) == [k \in 0..(Len(seq) - 1) |-> seq[k + 1]]

Flat(v, k) == [x \in 1..k |-> v]

\* Bench::run((core_i, core_j), .., req): the usual answer of a primitive, a
\* slow warm-up sample followed by steady ones, which take longer between
\* cores of different NUMA nodes
DefaultRun(c) ==
    LET steady == IF NodeSetOf(c[1]) = NodeSetOf(c[2]) THEN F(100) ELSE F(200)
    IN  Lane(<<F(900)>> \o Flat(steady, c[3] - 1))

\* Bench::run: the other answers a primitive may give: a fast pair, jitter,
\* a NaN first sample, NaN throughout, one sample too few
DeviantRuns(c) ==
    { Lane(<<F(900)>> \o Flat(F(50), c[3] - 1)),
      Lane(<<F(900)>> \o [x \in 1..(c[3] - 1) |->
                            IF x % 2 = 1 THEN F(50) ELSE F(351)]),
      Lane(<<F(900)>> \o [x \in 1..(c[3] - 1) |->
                            IF x = 1 THEN NaN ELSE F(50)]),
      Lane(Flat(NaN, c[3])),
      Lane(Flat(F(100), c[3] - 1)) } \ {DefaultRun(c)}

VARIABLES
    cores,        \* cores: &[CoreId], as a function 0..n-1 -> id
    symmetric,    \* bench.is_symmetric()
    num_samples,  \* args.num_samples
    pc,           \* position of the controller in run_bench
    i, j,         \* loop indices
    results,      \* the tensor: results[i][j][s]
    binding,      \* the process-wide memory binding ({} = never bound)
    nbind,        \* history: bind_memory calls that succeeded
    active,       \* pairs whose bench.run is in progress
    runs,         \* history: the bench.run calls, <<i, j, count, binding>>
    returned,     \* history: returned[<<i, j>>], what bench.run returned
    call,         \* arguments of the last bench.run call
    durations,    \* what the last bench.run returned
    deviant,      \* measurements so far that were not the default one
    header,       \* the column header was printed
    rows,         \* the row labels printed so far
    blanks,       \* blank diagonal cells printed
    progress,     \* progress[<<i, j>>]: the cell printed for the pair
    summary,      \* the min / max / mean lines, <<>> until printed
    csvout,       \* the CSV rows printed
    err           \* the panic message, "" while none

vars == <<cores, symmetric, num_samples, pc, i, j, results, binding,
          nbind, active, runs, returned, call, durations, deviant, header,
          rows, blanks, progress, summary, csvout, err>>

n_cores == Cardinality(DOMAIN cores)

Idx == 0..(n_cores - 1)

Pairs == Idx \X Idx

SampleIdx == 0..(num_samples - 1)

Init ==
    /\ \E n \in 0..MaxCores : cores \in CoreLists(n)
    /\ symmetric \in BOOLEAN
    /\ num_samples \in 0..MaxSamples
    /\ pc = "start"
    /\ i = 0
    /\ j = 0
    /\ results = <<>>
    /\ binding = {}
    /\ nbind = 0
    /\ active = {}
    /\ runs = <<>>
    /\ returned = <<>>
    /\ call = <<>>
    /\ durations = <<>>
    /\ deviant = 0
    /\ header = FALSE
    /\ rows = <<>>
    /\ blanks = 0
    /\ progress = <<>>
    /\ summary = <<>>
    /\ csvout = <<>>
    /\ err = ""

\* ------------------------------------------------------------ the sweep
PreconditionOffByOne == n_cores >= MinCores - 1

\* line 36: assert!(n_cores >= 2)
Precondition == n_cores >= MinCores

SkippedWithDiagonal(a, b) == IF symmetric THEN a < b ELSE a = b

\* lines 59-66: the cells the sweep leaves out
Skipped(a, b) == IF symmetric THEN a <= b ELSE a = b

\* lines 32-57: the precondition holds; the tensor is created full of NaN,
\* the column header and the first row label are printed
Start ==
    /\ pc = "start"
    /\ Precondition
    /\ results' = [a \in Idx |-> [b \in Idx |-> [s \in SampleIdx |-> NaN]]]
    /\ returned' = [p \in Pairs |-> <<>>]
    /\ progress' = [p \in Pairs |-> <<>>]
    /\ header' = TRUE
    /\ rows' = <<cores[0]>>
    /\ pc' = "loop"
    /\ UNCHANGED <<cores, symmetric, num_samples, i, j, binding, nbind,
                   active, runs, call, durations, deviant, blanks, summary,
                   csvout, err>>

\* line 36: the assertion fails
StartFail ==
    /\ pc = "start"
    /\ ~Precondition
    /\ pc' = "panic"
    /\ err' = "assertion failed: n_cores >= 2"
    /\ UNCHANGED <<cores, symmetric, num_samples, i, j, results, binding,
                   nbind, active, runs, returned, call, durations, deviant,
                   header, rows, blanks, progress, summary, csvout>>

\* lines 58-66: continue; a non-symmetric primitive prints a blank cell
Skip ==
    /\ pc = "loop"
    /\ j < n_cores
    /\ Skipped(i, j)
    /\ blanks' = IF symmetric THEN blanks ELSE blanks + 1
    /\ j' = j + 1
    /\ UNCHANGED <<cores, symmetric, num_samples, pc, i, results, binding,
                   nbind, active, runs, returned, call, durations, deviant,
                   header, rows, progress, summary, csvout, err>>

\* lines 97, 55-57: the row ends; the next row's label is printed, or the
\* sweep is over
RowEnd ==
    /\ pc = "loop"
    /\ j = n_cores
    /\ i' = i + 1
    /\ j' = 0
    /\ IF i + 1 < n_cores
       THEN pc' = "loop" /\ rows' = Append(rows, cores[i + 1])
       ELSE pc' = "summary" /\ rows' = rows
    /\ UNCHANGED <<cores, symmetric, num_samples, results, binding, nbind,
                   active, runs, returned, call, durations, deviant, header,
                   blanks, progress, summary, csvout, err>>

BindTargetSecondCore(a, b) == NodeSetOf(cores[b])

\* lines 71-74: nodeset_i, the NUMA node set of the PU of core_i
BindTarget(a, b) == NodeSetOf(cores[a])

\* lines 68-81: the PU of core i and its NUMA node are found and the memory
\* is bound to that node; the bind replaces the binding in effect
BindMemory ==
    /\ pc = "loop"
    /\ j < n_cores
    /\ ~Skipped(i, j)
    /\ binding' = {} \cup BindTarget(i, j)
    /\ nbind' = nbind + 1
    /\ pc' = "bound"
    /\ UNCHANGED <<cores, symmetric, num_samples, i, j, results, active, runs,
                   returned, call, durations, deviant, header, rows, blanks,
                   progress, summary, csvout, err>>

\* the messages of the three expect() calls of lines 73, 74 and 81
BindErrors ==
    { "core_i should have a valid PU index",
      "pu_i should have a valid NUMA node",
      "Failed to bind memory" }

BindFailFallsBack ==
    /\ pc = "loop"
    /\ j < n_cores
    /\ ~Skipped(i, j)
    /\ err' \in BindErrors
    /\ pc' = "bound"
    /\ UNCHANGED <<cores, symmetric, num_samples, i, j, results, binding,
                   nbind, active, runs, returned, call, durations, deviant,
                   header, rows, blanks, progress, summary, csvout>>

\* lines 71-81: one of the three expect() calls panics
BindFail ==
    /\ pc = "loop"
    /\ j < n_cores
    /\ ~Skipped(i, j)
    /\ err' \in BindErrors
    /\ pc' = "panic"
    /\ UNCHANGED <<cores, symmetric, num_samples, i, j, results, binding,
                   nbind, active, runs, returned, call, durations, deviant,
                   header, rows, blanks, progress, summary, csvout>>

\* line 84: bench.run((core_i, core_j), clock, num_iterations, 1 + num_samples)
\* is entered
RunCall ==
    /\ pc = "bound"
    /\ call' = <<cores[i], cores[j], Warmup + num_samples>>
    /\ active' = active \cup {<<i, j>>}
    /\ runs' = Append(runs, <<i, j, Warmup + num_samples, binding>>)
    /\ pc' = "running"
    /\ UNCHANGED <<cores, symmetric, num_samples, i, j, results, binding,
                   nbind, returned, durations, deviant, header, rows, blanks,
                   progress, summary, csvout, err>>

JoinedNever(act, p) == act

\* line 84: bench.run is a blocking call: the measurement of the pair is
\* over when it returns
Joined(act, p) == act \ {p}

\* line 84: bench.run returns its samples
RunReturn ==
    /\ pc = "running"
    /\ \E d \in {DefaultRun(call)} \cup
                (IF deviant < MaxDeviant THEN DeviantRuns(call) ELSE {}) :
          /\ durations' = d
          /\ returned' = [returned EXCEPT ![<<i, j>>] = d]
          /\ deviant' = IF d = DefaultRun(call) THEN deviant ELSE deviant + 1
    /\ active' = Joined(active, <<i, j>>)
    /\ pc' = "returned"
    /\ UNCHANGED <<cores, symmetric, num_samples, i, j, results, binding,
                   nbind, runs, call, header, rows, blanks, progress, summary,
                   csvout, err>>

RecordedWithWarmup(d) == [s \in 0..(LaneLen(d) - 1 - Warmup) |-> d[s]]

\* line 85: &durations[1..]
Recorded(d) == [s \in 0..(LaneLen(d) - 1 - Warmup) |-> d[s + Warmup]]

\* lines 86-89: the lane after the first k samples were copied into it
Copied(values, src, k) ==
    [s \in DOMAIN values |-> IF s < k THEN src[s] ELSE values[s]]

\* line 91: the mean printed in the progress cell
CellMean(values) == Mean(values)

CellStderrOfStddev(values) == FMin(Var(values, Ddof), F(StdCap * StdCap))

\* line 93: values.std(1.0).min(99.0) / sqrt(num_samples), as its square
CellStderr(values) ==
    FDiv(FMin(Var(values, Ddof), F(StdCap * StdCap)), num_samples)

\* lines 85-95: the warm-up sample is dropped, the rest is stored in
\* results[i, j, ..], and the progress cell is printed: the mean and the
\* standard error as printed, and the standard error as computed
Store ==
    /\ pc = "returned"
    /\ LaneLen(durations) >= Warmup
    /\ LaneLen(Recorded(durations)) >= num_samples
    /\ num_samples > 0
    /\ LET values == Copied(results[i][j], Recorded(durations), num_samples)
       IN  /\ results' = [results EXCEPT ![i][j] = values]
           /\ progress' = [progress EXCEPT ![<<i, j>>] =
                             << Fmt(CellMean(values), 1),
                                FmtRoot(CellStderr(values), 1),
                                CellStderr(values) >>]
    /\ j' = j + 1
    /\ pc' = "loop"
    /\ UNCHANGED <<cores, symmetric, num_samples, i, binding, nbind, active,
                   runs, returned, call, durations, deviant, header, rows,
                   blanks, summary, csvout, err>>

\* lines 85-91: the slice, an index or the unwrap() of the mean panics; the
\* samples copied before an index panic stay in the tensor
StoreFail ==
    /\ pc = "returned"
    /\ \/ /\ LaneLen(durations) < Warmup
          /\ results' = results
          /\ err' = "range start index out of range"
       \/ /\ LaneLen(durations) >= Warmup
          /\ LaneLen(Recorded(durations)) < num_samples
          /\ results' = [results EXCEPT ![i][j] =
                           Copied(@, Recorded(durations),
                                  LaneLen(Recorded(durations)))]
          /\ err' = "index out of bounds"
       \/ /\ LaneLen(durations) >= Warmup
          /\ LaneLen(Recorded(durations)) >= num_samples
          /\ num_samples = 0
          /\ results' = results
          /\ err' = "called Option::unwrap() on a None value"
    /\ pc' = "panic"
    /\ UNCHANGED <<cores, symmetric, num_samples, i, j, binding, nbind,
                   active, runs, returned, call, durations, deviant, header,
                   rows, blanks, progress, summary, csvout>>

\* ------------------------------------------------------ the summary
\* results.mean_axis(Axis(2)): the per-pair means
MeanAxis(res) == [p \in Pairs |-> Mean(res[p[1]][p[2]])]

\* results.std_axis(Axis(2), 1.0) / sqrt(num_samples), as its square
StderrAxis(res) ==
    [p \in Pairs |-> FDiv(Var(res[p[1]][p[2]], Ddof), num_samples)]

\* indexed_iter(): the k-th index in row-major order
IndexAt(k) == <<k \div n_cores, k % n_cores>>

\* Iterator::min_by_key over the non-NaN means from position k on, best being
\* the element kept so far (<<>> = none): a later element replaces it only
\* when it is strictly smaller
RECURSIVE MinByKey(_, _, _)
MinByKey(m, k, best) ==
    IF k = n_cores * n_cores THEN best
    ELSE IF IsNaN(m[IndexAt(k)]) THEN MinByKey(m, k + 1, best)
    ELSE IF best = <<>> THEN MinByKey(m, k + 1, IndexAt(k))
    ELSE IF Less(m[IndexAt(k)], m[best]) THEN MinByKey(m, k + 1, IndexAt(k))
    ELSE MinByKey(m, k + 1, best)

RECURSIVE MaxByKeyFirst(_, _, _)
MaxByKeyFirst(m, k, best) ==
    IF k = n_cores * n_cores THEN best
    ELSE IF IsNaN(m[IndexAt(k)]) THEN MaxByKeyFirst(m, k + 1, best)
    ELSE IF best = <<>> THEN MaxByKeyFirst(m, k + 1, IndexAt(k))
    ELSE IF Less(m[best], m[IndexAt(k)])
         THEN MaxByKeyFirst(m, k + 1, IndexAt(k))
    ELSE MaxByKeyFirst(m, k + 1, best)

\* Iterator::max_by_key: a later element replaces the one kept unless it is
\* strictly smaller
RECURSIVE MaxByKey(_, _, _)
MaxByKey(m, k, best) ==
    IF k = n_cores * n_cores THEN best
    ELSE IF IsNaN(m[IndexAt(k)]) THEN MaxByKey(m, k + 1, best)
    ELSE IF best = <<>> THEN MaxByKey(m, k + 1, IndexAt(k))
    ELSE IF Less(m[IndexAt(k)], m[best]) THEN MaxByKey(m, k + 1, best)
    ELSE MaxByKey(m, k + 1, IndexAt(k))

MinIndexOfMax(res) == MaxByKey(MeanAxis(res), 0, <<>>)

\* lines 107-111: the index of the minimum mean, <<>> when unwrap() panics
MinIndex(res) == MinByKey(MeanAxis(res), 0, <<>>)

\* lines 116-120: the index of the maximum mean
MaxIndex(res) == MaxByKey(MeanAxis(res), 0, <<>>)

\* results.iter(): the k-th cell in row-major order
CellAt(res, k) ==
    res[k \div (n_cores * num_samples)]
       [(k \div num_samples) % n_cores]
       [k % num_samples]

\* line 143: the non-NaN cells among the first k, as <<sum, count>>
RECURSIVE Valid(_, _)
Valid(res, k) ==
    IF k = 0 THEN <<F(0), 0>>
    ELSE LET r == Valid(res, k - 1)
             c == CellAt(res, k - 1)
         IN  IF IsNaN(c) THEN r ELSE <<FAdd(r[1], c), r[2] + 1>>

\* lines 143-145: the mean over all non-NaN cells
GlobalMean(res) ==
    LET v == Valid(res, n_cores * n_cores * num_samples)
    IN  FDiv(v[1], v[2])

\* lines 112-114, 121-123: a min / max line: the mean and the standard error
\* as printed, the core pair, and the standard error as computed
Line(res, p) ==
    << Fmt(MeanAxis(res)[p], 10),
       FmtRoot(StderrAxis(res)[p], 10),
       cores[p[1]], cores[p[2]],
       StderrAxis(res)[p] >>

\* lines 100-148: the min, max and mean lines are printed
Summary ==
    /\ pc = "summary"
    /\ num_samples > 0
    /\ MinIndex(results) # <<>>
    /\ summary' = << Line(results, MinIndex(results)),
                     Line(results, MaxIndex(results)),
                     <<Fmt(GlobalMean(results), 10)>> >>
    /\ pc' = "report"
    /\ UNCHANGED <<cores, symmetric, num_samples, i, j, results, binding,
                   nbind, active, runs, returned, call, durations, deviant,
                   header, rows, blanks, progress, csvout, err>>

\* lines 104, 111: unwrap() panics: there are no samples, or no mean is a number
SummaryFail ==
    /\ pc = "summary"
    /\ num_samples = 0 \/ MinIndex(results) = <<>>
    /\ pc' = "panic"
    /\ err' = "called Option::unwrap() on a None value"
    /\ UNCHANGED <<cores, symmetric, num_samples, i, j, results, binding,
                   nbind, active, runs, returned, call, durations, deviant,
                   header, rows, blanks, progress, summary, csvout>>

\* lines 150-160: args.csv, read here for the first time, is set: one CSV row
\* per core, an empty field (NaN here) for a NaN mean
PrintCsv ==
    /\ pc = "report"
    /\ csvout' = [r \in 1..n_cores |->
                    [c \in 1..n_cores |-> MeanAxis(results)[<<r - 1, c - 1>>]]]
    /\ pc' = "done"
    /\ UNCHANGED <<cores, symmetric, num_samples, i, j, results, binding,
                   nbind, active, runs, returned, call, durations, deviant,
                   header, rows, blanks, progress, summary, err>>

\* line 150: args.csv is not set
Return ==
    /\ pc = "report"
    /\ pc' = "done"
    /\ UNCHANGED <<cores, symmetric, num_samples, i, j, results, binding,
                   nbind, active, runs, returned, call, durations, deviant,
                   header, rows, blanks, progress, summary, csvout, err>>

Next ==
    \/ Start
    \/ StartFail
    \/ Skip
    \/ RowEnd
    \/ BindMemory
    \/ BindFail
    \/ RunCall
    \/ RunReturn
    \/ Store
    \/ StoreFail
    \/ Summary
    \/ SummaryFail
    \/ PrintCsv
    \/ Return

Spec == Init /\ [][Next]_vars

\* ------------------------------------------------------------ properties
\* a = b as numbers, on non-NaN values
Same(a, b) == a[1] * b[2] = b[1] * a[2]

\* equality of two values that may be NaN, NaN being equal to NaN only
SameF(a, b) ==
    IF IsNaN(a) \/ IsNaN(b) THEN IsNaN(a) /\ IsNaN(b) ELSE Same(a, b)

Filled(a, b, s) == ~IsNaN(results[a][b][s])

Measured(a, b) == (symmetric /\ a > b) \/ (~symmetric /\ a # b)

SweepOver == pc \in {"summary", "report", "done"}

NoNaNReturned ==
    \A p \in DOMAIN returned : \A k \in DOMAIN returned[p] :
        ~IsNaN(returned[p][k])

RunPair(k) == <<runs[k][1], runs[k][2]>>

Stored(p) == progress[p] # <<>>

\* C1: the filled cells of the tensor are always among the cells (i, j, s)
\* with i > j for a symmetric primitive and i # j for a non-symmetric one,
\* and once the sweep is over, with a primitive that returned no NaN, a pair
\* is filled for every sample index exactly when it is one of these.
C1_TensorShape ==
    \A a \in DOMAIN results : \A b \in DOMAIN results[a] :
        /\ \A s \in SampleIdx : Filled(a, b, s) => Measured(a, b)
        /\ (SweepOver /\ NoNaNReturned) =>
              ((\A s \in SampleIdx : Filled(a, b, s)) <=> Measured(a, b))

C1_Witness ==
    /\ pc = "done"
    /\ ~symmetric
    /\ n_cores = 3
    /\ NoNaNReturned
    /\ \A s \in SampleIdx : Filled(0, 2, s) /\ Filled(2, 0, s)
    /\ ~Filled(1, 1, 0)

\* C2: every bench.run call asks for 1 + num_samples repetitions, and for
\* every pair whose samples were stored there was one call, and
\* results[i][j][s] is element s + 1 of what that call returned: element 0,
\* the warm-up, is not stored.
C2_WarmupDiscarded ==
    /\ \A k \in 1..Len(runs) : runs[k][3] = 1 + num_samples
    /\ \A p \in DOMAIN progress :
          Stored(p) =>
             /\ Cardinality({k \in 1..Len(runs) : RunPair(k) = p}) = 1
             /\ LaneLen(returned[p]) = 1 + num_samples
             /\ \A s \in SampleIdx :
                   results[p[1]][p[2]][s] = returned[p][s + 1]
             /\ (\A s \in SampleIdx : returned[p][s + 1] # returned[p][0])
                   => \A s \in SampleIdx :
                         results[p[1]][p[2]][s] # returned[p][0]

C2_Witness ==
    /\ num_samples = 2
    /\ \E p \in DOMAIN progress :
          /\ Stored(p)
          /\ returned[p][1] # returned[p][2]
          /\ returned[p][0] = F(900)
          /\ results[p[1]][p[2]][0] = returned[p][1]
          /\ results[p[1]][p[2]][1] = returned[p][2]

\* C3: every bench.run call starts with the memory bound to the NUMA node set
\* of core i of its pair; a bind happens only while no measurement is in
\* progress and replaces the binding; between two calls there is a bind, so
\* no call starts without the bind made for its own pair.
C3_BoundBeforeRun ==
    /\ [](/\ \A k \in 1..Len(runs) :
                runs[k][4] = NodeSetOf(cores[runs[k][1]])
          /\ (pc = "running" =>
                binding = NodeSetOf(cores[i]) /\ nbind = Len(runs))
          /\ (pc = "bound" => active = {} /\ nbind = Len(runs) + 1))
    /\ [][nbind' # nbind =>
            /\ active = {}
            /\ active' = {}
            /\ nbind = Len(runs)
            /\ binding' = NodeSetOf(cores[i])]_vars
    /\ [][runs' # runs =>
            /\ nbind = Len(runs) + 1
            /\ binding = NodeSetOf(cores[i])
            /\ binding' = binding]_vars

C3_Witness ==
    /\ pc = "running"
    /\ Len(runs) >= 2
    /\ runs[Len(runs) - 1][4] # binding
    /\ binding = NodeSetOf(cores[i])

\* C4: after a failed PU lookup, NUMA node lookup or bind the run is over:
\* no measurement is in progress, the pair it failed at and every later
\* pair was never run, stored or printed, and neither the summary nor a
\* CSV row exists.
C4_BindFailureAborts ==
    err \in BindErrors =>
        /\ pc = "panic"
        /\ active = {}
        /\ nbind = Len(runs)
        /\ summary = <<>>
        /\ csvout = <<>>
        /\ \A a \in Idx : \A b \in Idx :
              (a > i \/ (a = i /\ b >= j)) =>
                 /\ \A k \in 1..Len(runs) : RunPair(k) # <<a, b>>
                 /\ \A s \in SampleIdx : ~Filled(a, b, s)
                 /\ ~Stored(<<a, b>>)

C4_Witness ==
    /\ err = "Failed to bind memory"
    /\ pc = "panic"
    /\ Len(runs) >= 1
    /\ Stored(RunPair(1))

\* C5: at most one measurement is in progress at any time, and only while
\* the controller waits in bench.run; a pair is run at most once, only if it
\* is not skipped, and exactly once when the sweep is over; the tensor is
\* written only after the pair's call returned, with no measurement in
\* progress, and before the next call the samples of every earlier call are
\* stored.
C5_OneAtATime ==
    /\ [](/\ Cardinality(active) <= 1
          /\ (active # {} => pc = "running" /\ active = {<<i, j>>})
          /\ \A k \in 1..Len(runs) :
                /\ Measured(runs[k][1], runs[k][2])
                /\ \A l \in 1..Len(runs) : RunPair(k) = RunPair(l) => k = l
                /\ (k < Len(runs) => Stored(RunPair(k)))
          /\ SweepOver =>
                \A a \in Idx : \A b \in Idx :
                   Measured(a, b) =>
                      \E k \in 1..Len(runs) : RunPair(k) = <<a, b>>)
    /\ [][(pc # "start" /\ results' # results) =>
            /\ active = {}
            /\ pc = "returned"
            /\ returned[<<i, j>>] # <<>>
            /\ RunPair(Len(runs)) = <<i, j>>
            /\ \A a \in Idx : \A b \in Idx :
                  <<a, b>> # <<i, j>> => results'[a][b] = results[a][b]]_vars
    /\ [][runs' # runs => \A k \in 1..Len(runs) : Stored(RunPair(k))]_vars

C5_Witness ==
    /\ pc = "running"
    /\ Len(runs) = 2
    /\ active = {RunPair(2)}
    /\ Stored(RunPair(1))

\* the per-pair means of the tensor
PairMeans == [p \in Pairs |-> Mean(results[p[1]][p[2]])]

ValidOf(m) == {p \in DOMAIN m : ~IsNaN(m[p])}

\* p has the smallest (largest) of the non-NaN means m
IsMin(m, p) ==
    /\ ~IsNaN(m[p])
    /\ \A q \in DOMAIN m : IsNaN(m[q]) \/ ~Less(m[q], m[p])

IsMax(m, p) ==
    /\ ~IsNaN(m[p])
    /\ \A q \in DOMAIN m : IsNaN(m[q]) \/ ~Less(m[p], m[q])

Printed(line, m, p) ==
    /\ line[1] = Fmt(m[p], 10)
    /\ line[3] = cores[p[1]]
    /\ line[4] = cores[p[2]]

\* C6: the min line shows the smallest per-pair mean among the non-NaN means
\* (with one decimal) and the core ids of a pair with that mean; the max line
\* the largest one and the core ids of a pair with it.
C6_MinMaxOfMeans ==
    summary # <<>> =>
        \A m \in {PairMeans} :
            /\ \E p \in Pairs : IsMin(m, p) /\ Printed(summary[1], m, p)
            /\ \E p \in Pairs : IsMax(m, p) /\ Printed(summary[2], m, p)

C6_Witness ==
    /\ summary # <<>>
    /\ symmetric
    /\ n_cores = 3
    /\ SameF(PairMeans[<<1, 0>>], F(100))
    /\ SameF(PairMeans[<<2, 0>>], F(50))
    /\ SameF(PairMeans[<<2, 1>>], F(200))
    /\ summary[1][1] = <<500, 10>>
    /\ <<summary[1][3], summary[1][4]>> = <<cores[2], cores[0]>>
    /\ summary[2][1] = <<2000, 10>>
    /\ <<summary[2][3], summary[2][4]>> = <<cores[2], cores[1]>>

\* the non-NaN cells among the first k of a lane, as <<sum, count>>
RECURSIVE LaneValid(_, _)
LaneValid(v, k) ==
    IF k = 0 THEN <<F(0), 0>>
    ELSE LET r == LaneValid(v, k - 1)
         IN  IF IsNaN(v[k - 1]) THEN r ELSE <<FAdd(r[1], v[k - 1]), r[2] + 1>>

\* the mean of the non-NaN cells of each pair, NaN for a pair with none
FilteredMeans ==
    [p \in Pairs |->
        LET r == LaneValid(results[p[1]][p[2]], num_samples)
        IN  FDiv(r[1], r[2])]

FilteredValid == {p \in Pairs : ~IsNaN(FilteredMeans[p])}

\* C7: the summary is the reduction over the non-NaN cells only: the min and
\* max lines show the smallest and largest mean of the non-NaN cells of a
\* pair, over the pairs that have such cells, and the mean line the mean of
\* all non-NaN cells.
C7_NaNCellsAbsent ==
    summary # <<>> =>
        /\ \E p \in FilteredValid :
              /\ \A q \in FilteredValid :
                    ~Less(FilteredMeans[q], FilteredMeans[p])
              /\ summary[1][1] = Fmt(FilteredMeans[p], 10)
        /\ \E p \in FilteredValid :
              /\ \A q \in FilteredValid :
                    ~Less(FilteredMeans[p], FilteredMeans[q])
              /\ summary[2][1] = Fmt(FilteredMeans[p], 10)
        /\ summary[3][1] = Fmt(GlobalMean(results), 10)

\* C8: with fewer than 2 cores nothing is measured or printed: no bind, no
\* bench.run call, no header, row, summary or CSV line, and the run ends in
\* the failed assertion.
C8_TooFewCores ==
    n_cores < 2 =>
        /\ pc \in {"start", "panic"}
        /\ (pc = "panic" => err = "assertion failed: n_cores >= 2")
        /\ nbind = 0
        /\ binding = {}
        /\ runs = <<>>
        /\ active = {}
        /\ ~header
        /\ rows = <<>>
        /\ blanks = 0
        /\ summary = <<>>
        /\ csvout = <<>>

C8_Witness ==
    /\ n_cores = 1
    /\ pc = "panic"
    /\ err = "assertion failed: n_cores >= 2"

\* the position of a pair in the iteration order of the means (i, then j)
Pos(p) == p[1] * n_cores + p[2]

\* p is the first (last) in iteration order of the pairs with the extreme mean
FirstMin(m, p) ==
    /\ IsMin(m, p)
    /\ \A q \in DOMAIN m : Pos(q) < Pos(p) => IsNaN(m[q]) \/ Less(m[p], m[q])

FirstMax(m, p) ==
    /\ IsMax(m, p)
    /\ \A q \in DOMAIN m : Pos(q) < Pos(p) => IsNaN(m[q]) \/ Less(m[q], m[p])

LastMax(m, p) ==
    /\ IsMax(m, p)
    /\ \A q \in DOMAIN m : Pos(p) < Pos(q) => IsNaN(m[q]) \/ Less(m[q], m[p])

LinePair(line, p) == <<line[3], line[4]>> = <<cores[p[1]], cores[p[2]]>>

\* C9 as claimed: among the pairs sharing the minimum mean, and among those
\* sharing the maximum mean, the first in iteration order is reported.
C9_FirstOnTies ==
    summary # <<>> =>
        \A m \in {PairMeans} :
            /\ \E p \in Pairs : LinePair(summary[1], p) /\ FirstMin(m, p)
            /\ \E p \in Pairs : LinePair(summary[2], p) /\ FirstMax(m, p)

\* C9: among the pairs sharing the minimum mean the first in iteration order
\* (i ascending, then j ascending) is reported, and among the pairs sharing
\* the maximum mean the last one.
C9_FirstMinLastMax ==
    summary # <<>> =>
        \A m \in {PairMeans} :
            /\ \E p \in Pairs : LinePair(summary[1], p) /\ FirstMin(m, p)
            /\ \E p \in Pairs : LinePair(summary[2], p) /\ LastMax(m, p)

C9_Witness ==
    /\ summary # <<>>
    /\ \E p, q \in Pairs :
          /\ p # q
          /\ IsMin(PairMeans, p)
          /\ IsMin(PairMeans, q)
          /\ ~IsMax(PairMeans, p)
          /\ LinePair(summary[1], p)
          /\ FirstMin(PairMeans, p)
    /\ \E p, q \in Pairs :
          /\ p # q
          /\ IsMax(PairMeans, p)
          /\ IsMax(PairMeans, q)
          /\ LinePair(summary[2], p)
          /\ LastMax(PairMeans, p)
          /\ ~FirstMax(PairMeans, p)

RECURSIVE SumOf(_, _)
SumOf(v, k) == IF k = 0 THEN 0 ELSE SumOf(v, k - 1) + v[k - 1][1]

RECURSIVE SumOfSquares(_, _)
SumOfSquares(v, k) ==
    IF k = 0 THEN 0 ELSE SumOfSquares(v, k - 1) + v[k - 1][1] * v[k - 1][1]

\* the square of the sample standard deviation of a lane of whole numbers:
\* (n * sum of squares - square of the sum) / (n * (n - 1)); NaN when a
\* sample is NaN or there is a single sample
SampleVariance(v) ==
    LET n == LaneLen(v)
    IN  IF n < 2 \/ \E k \in DOMAIN v : IsNaN(v[k]) THEN NaN
        ELSE Norm(<<n * SumOfSquares(v, n) - SumOf(v, n) * SumOf(v, n),
                    n * (n - 1)>>)

\* se (a square) is stddev / sqrt(num_samples) of the pair, and >= 0
IsStderr(se, p) ==
    /\ ~IsNaN(se)
    /\ se[1] >= 0
    /\ ~IsNaN(SampleVariance(results[p[1]][p[2]]))
    /\ Same(se, FDiv(SampleVariance(results[p[1]][p[2]]), num_samples))

\* C10 as claimed: the standard error of every progress cell and of the min
\* and max lines is >= 0 and is the pair's sample standard deviation divided
\* by the square root of the sample count.
C10_StderrOfPair ==
    /\ \A p \in DOMAIN progress : Stored(p) => IsStderr(progress[p][3], p)
    /\ summary # <<>> =>
          /\ IsStderr(summary[1][5], MinIndex(results))
          /\ IsStderr(summary[2][5], MaxIndex(results))

\* C10: the standard error of the min and max lines is the pair's sample
\* standard deviation divided by the square root of the sample count, NaN
\* when there is a single sample and >= 0 otherwise; the one of a progress
\* cell is computed from the standard deviation capped at 99 (an undefined
\* one counting as 99) and is always >= 0.
C10_StderrCapped ==
    /\ \A p \in DOMAIN progress :
          Stored(p) =>
             /\ ~IsNaN(progress[p][3])
             /\ progress[p][3][1] >= 0
             /\ Same(progress[p][3],
                     FDiv(FMin(SampleVariance(results[p[1]][p[2]]),
                               F(99 * 99)),
                          num_samples))
    /\ summary # <<>> =>
          \A l \in {1, 2} :
             \E p \in ValidOf(PairMeans) :
                /\ LinePair(summary[l], p)
                /\ SameF(summary[l][5],
                         FDiv(SampleVariance(results[p[1]][p[2]]),
                              num_samples))
                /\ IsNaN(summary[l][5]) <=> num_samples = 1
                /\ ~IsNaN(summary[l][5]) => summary[l][5][1] >= 0

C10_Witness ==
    /\ summary # <<>>
    /\ num_samples = 2
    /\ \E p \in DOMAIN progress :
          /\ Stored(p)
          /\ ~IsNaN(SampleVariance(results[p[1]][p[2]]))
          /\ Less(F(99 * 99), SampleVariance(results[p[1]][p[2]]))
          /\ Same(progress[p][3], <<9801, 2>>)

=============================================================================
